---- MODULE Spec2Model ----
(***************************************************************************)
(* go-inject: a reflection based dependency injection container.           *)
(*                                                                         *)
(* The model follows container.go and the helper file statement by         *)
(* statement.  Goroutines are threads with an explicit call stack; the     *)
(* two sync.RWMutex levels (Container.mu and ServiceDescriptor.mu) are     *)
(* modelled with the writer-preference rule of the Go runtime: once a      *)
(* writer has called Lock, every new RLock blocks until that writer has    *)
(* unlocked, also when the caller already holds a read lock.               *)
(***************************************************************************)
EXTENDS Integers, Sequences, FiniteSets, TLC

VARIABLES services, descs, dmu, cmu, stack, ret, nextInst, invlog, budget, fatal, cur, wiring

vars == <<services, descs, dmu, cmu, stack, ret, nextInst, invlog, budget, fatal, cur, wiring>>

-----------------------------------------------------------------------------
(* Bounds *)

\* Register and Resolve calls issued in one run
MaxOps == 4
\* capacity of a goroutine's call stack, in frames
MaxDepth == 7

Threads == {"t1", "t2"}
NoThread == "none"

-----------------------------------------------------------------------------
(* reflect.Type: the types of the test suite, a struct type that is an      *)
(* error, and the pointer to a pointer type                                *)

Types ==
    {"A", "PA", "I", "PI", "J", "PJ", "B", "PB", "Str", "PContainer", "Container", "error", "ErrVal", "PPB", "PPContainer", "PStr"}

Kind(t) ==
    CASE t \in {"PA", "PI", "PJ", "PB", "PContainer", "PPB", "PPContainer", "PStr"} -> "Ptr"
      [] t \in {"I", "J", "error"} -> "Interface"
      [] t = "Str" -> "String"
      [] OTHER -> "Struct"

Elem(t) ==
    CASE t = "PA" -> "A"
      [] t = "PI" -> "I"
      [] t = "PJ" -> "J"
      [] t = "PB" -> "B"
      [] t = "PContainer" -> "Container"
      [] t = "PPB" -> "PB"
      [] t = "PPContainer" -> "PContainer"
      [] t = "PStr" -> "Str"
      [] OTHER -> t

\* reflect.Type.Implements: *TestImplementation has GetValue, *TestService has
\* GetDependency; ErrVal is a struct type with an Error() string method
Implements(r, s) ==
    CASE s = "I" -> r \in {"PA", "I"}
      [] s = "J" -> r \in {"PB", "J"}
      [] s = "error" -> r \in {"error", "ErrVal"}
      [] OTHER -> FALSE

\* reflect.TypeOf((*T)(nil)): the token of the generic helpers for the type T
PtrTo(T) == CHOOSE P \in Types : Kind(P) = "Ptr" /\ Elem(P) = T

\* the type tokens callers hand to Register, Resolve and Has: (*T)(nil)
Tokens == {"PJ"} \cup {in[1] : in \in wiring}

StripPtrNever(t) == t

\* sType := reflect.TypeOf(serviceType); if sType.Kind() == reflect.Ptr { sType = sType.Elem() }
StripPtr(t) == IF Kind(t) = "Ptr" THEN Elem(t) ELSE t

-----------------------------------------------------------------------------
(* Factories: callables of the test suite and the documentation.  in/out   *)
(* are the reflected parameter and result types, body the calls the        *)
(* factory makes on the injected container, outcomes what an invocation    *)
(* can return: a non-nil instance, a nil instance with no error, an error. *)

Fac(fn, in, out, body, outcomes) ==
    [func |-> fn, in |-> in, out |-> out, body |-> body, outcomes |-> outcomes, untyped |-> FALSE,
     helper |-> "", impl |-> "", captured |-> ""]

\* the factory RegisterInterface[TInterface, TImpl] builds around the caller's
\* func(*Container) TImpl: impl := factory(c); return any(impl).(TInterface),
\* a type assertion that panics when TImpl does not implement TInterface
InterfaceWrapper(TInterface, TImpl) ==
    [Fac(TRUE, <<"PContainer">>, <<TInterface>>, <<>>,
         IF Implements(TImpl, TInterface) THEN {"ok"} ELSE {"panic"})
     EXCEPT !.helper = "RegisterInterface", !.impl = TImpl]

\* the factory RegisterValue[T] builds around value: func() T { return value }
ValueWrapper(T, value) ==
    [Fac(TRUE, <<>>, <<T>>, <<>>, {"val"}) EXCEPT !.helper = "RegisterValue", !.captured = value]

Call(op, token) == [op |-> op, token |-> token]

Factories ==
    [ fI      |-> Fac(TRUE, <<>>, <<"I", "error">>, <<>>, {"ok", "nil", "err"}),
      fJI     |-> Fac(TRUE, <<"I">>, <<"J", "error">>, <<>>, {"ok", "err"}),
      fIv     |-> Fac(TRUE, <<>>, <<"I", "ErrVal">>, <<>>, {"err"}),
      fIJ     |-> Fac(TRUE, <<"J">>, <<"I">>, <<>>, {"ok"}),
      fBJ     |-> Fac(TRUE, <<"J">>, <<"PB">>, <<>>, {"ok"}),
      fBc     |-> Fac(TRUE, <<"PContainer">>, <<"PB">>, <<Call("Has", "PI")>>, {"ok"}),
      fJ      |-> Fac(TRUE, <<>>, <<"J", "error">>, <<>>, {"ok"}),
      fBIJ    |-> Fac(TRUE, <<"I", "J">>, <<"PB">>, <<>>, {"ok"}),
      fJpB    |-> Fac(TRUE, <<"PB">>, <<"J">>, <<>>, {"ok"}),
      fBm     |-> Fac(TRUE, <<"PContainer">>, <<"PB">>, <<Call("MustResolve", "PI")>>, {"ok"}),
      fStr    |-> Fac(TRUE, <<>>, <<"Str">>, <<>>, {"ok"}),
      fC      |-> Fac(TRUE, <<>>, <<"PContainer">>, <<>>, {"ok"}),
      fB      |-> Fac(TRUE, <<>>, <<"B">>, <<>>, {"ok"}),
      fPB     |-> Fac(TRUE, <<>>, <<"PB">>, <<>>, {"ok"}),
      fPBc    |-> Fac(TRUE, <<"PContainer">>, <<"PB">>, <<>>, {"ok"}),
      fIc     |-> Fac(TRUE, <<"PContainer">>, <<"I">>, <<>>, {"ok", "nil"}),
      wIA     |-> InterfaceWrapper("I", "PA"),
      wIB     |-> InterfaceWrapper("I", "PB"),
      vI      |-> ValueWrapper("I", "fixed"),
      vINil   |-> ValueWrapper("I", "nil"),
      fIs     |-> Fac(TRUE, <<>>, <<"I", "Str">>, <<>>, {}),
      fNone   |-> Fac(TRUE, <<>>, <<>>, <<>>, {}),
      fThree  |-> Fac(TRUE, <<>>, <<"I", "error", "error">>, <<>>, {}),
      notfunc |-> Fac(FALSE, <<>>, <<>>, <<>>, {}),
      nilfac  |-> [Fac(FALSE, <<>>, <<>>, <<>>, {}) EXCEPT !.untyped = TRUE] ]

Lifecycles == {"Transient", "Singleton"}

\* The registrations an application makes, as (type token, factory, lifecycle):
\* each is the wiring of one test or example, with the lifecycles varied.
Caching == { <<"PI", "fI", "Singleton">>, <<"PI", "fI", "Transient">> }
Nested == { <<"PI", "fI", "Singleton">>, <<"PJ", "fJI", "Singleton">> }
Cycle == { <<"PI", "fIJ", "Transient">>, <<"PI", "fIJ", "Singleton">>, <<"PJ", "fJI", "Transient">> }
Chain == { <<"PB", "fBJ", "Transient">>, <<"PJ", "fJI", "Transient">>, <<"PI", "fI", "Singleton">> }
Injected == { <<"PB", "fBc", "Singleton">>, <<"PB", "fBc", "Transient">>, <<"PI", "fI", "Singleton">> }
Rejected == { <<"PB", "fStr", "Transient">>, <<"PI", "notfunc", "Singleton">>, <<"PI", "fI", "Singleton">> }
ValueError == { <<"PI", "fIv", "Singleton">>, <<"PI", "fIv", "Transient">>, <<"PJ", "fJI", "Transient">> }
NotImplemented == { <<"PI", "fI", "Singleton">>, <<"PI", "fStr", "Transient">>, <<"PI", "fPB", "Singleton">> }
Concrete ==
    { <<"PB", "fB", "Transient">>, <<"PB", "fPB", "Singleton">>, <<"PPB", "fB", "Singleton">>,
      <<"PB", "fStr", "Transient">> }
BadFactories ==
    { <<"PI", "nilfac", "Singleton">>, <<"PI", "fNone", "Transient">>, <<"PI", "fThree", "Transient">>,
      <<"PI", "fIs", "Transient">>, <<"PI", "fI", "Singleton">> }
SelfRegistered ==
    { <<"PPContainer", "fC", "Singleton">>, <<"PB", "fBc", "Transient">> }
Unrelated == { <<"PI", "fI", "Singleton">>, <<"PB", "fPB", "Singleton">> }
Ordered ==
    { <<"PB", "fBIJ", "Transient">>, <<"PI", "fI", "Transient">>, <<"PJ", "fJ", "Transient">> }
\* a struct value and a pointer to it as tokens of one type
ByValue == { <<"B", "fB", "Singleton">>, <<"PB", "fPB", "Transient">> }
\* a factory with a pointer parameter, and the pointed-to type registered
\* under the key T (token *T) or under the key *T (token **T)
PointerParam ==
    { <<"PB", "fPB", "Singleton">>, <<"PPB", "fPB", "Singleton">>, <<"PJ", "fJpB", "Transient">> }
\* a factory that requires a service of the injected container by MustResolve
Required == { <<"PB", "fBm", "Singleton">>, <<"PI", "fI", "Transient">> }
\* the wirings of the generic helpers
Typed == { <<"PPB", "fPBc", "Singleton">>, <<"PPB", "fPBc", "Transient">> }
Interfaces == { <<"PI", "wIA", "Singleton">>, <<"PI", "wIA", "Transient">>, <<"PI", "wIB", "Singleton">> }
Optional == { <<"PI", "fIc", "Singleton">>, <<"PB", "fPB", "Singleton">> }
Values == { <<"PI", "vI", "Singleton">>, <<"PI", "vINil", "Singleton">> }
Funcs ==
    { <<"PPB", "fPB", "Singleton">>, <<"PI", "fI", "Transient">>, <<"PI", "fNone", "Singleton">>,
      <<"PI", "fThree", "Singleton">>, <<"PI", "notfunc", "Transient">>, <<"PI", "nilfac", "Singleton">> }

Wirings ==
    { Caching, Nested, Cycle, Chain, Injected, Rejected, ValueError, NotImplemented,
      Concrete, BadFactories, SelfRegistered, Unrelated, Ordered, ByValue, PointerParam,
      Required, Typed, Interfaces, Optional, Values,
      Funcs }

\* the wirings of the applications that share their container between
\* goroutines: registration is serialized by the registry's lock, so the
\* wirings that vary the validation of factories are run by one goroutine
Shared ==
    { Caching, Nested, Cycle, Injected, Unrelated, Required, Values }

\* the wirings whose callers query the registry with Has and GetServiceTypes
Queried == { Caching, BadFactories, ByValue, SelfRegistered }

\* the wirings whose callers register through the generic helpers only
ByHelper == { Typed, Interfaces, Values, Funcs }

\* the callers of the wirings Typed and Optional resolve the types they
\* register through MustResolve and TryResolve as well
ResolveOps(token) ==
    IF wiring \in {Typed, Optional} /\ token \in {in[1] : in \in wiring}
    THEN {"Resolve", "MustResolve", "TryResolve"}
    ELSE {"Resolve"}


-----------------------------------------------------------------------------
(* Values and errors *)

Nil == [id |-> 0, by |-> 0, deps |-> <<>>]
ContainerValue == [id |-> -1, by |-> 0, deps |-> <<>>]
\* the already constructed value handed to RegisterValue
FixedValue == [id |-> -2, by |-> 0, deps |-> <<>>]
Captured(f) == IF Factories[f].captured = "nil" THEN Nil ELSE FixedValue
Instance(n, d, args) == [id |-> n, by |-> d, deps |-> args]

NoErr == [kind |-> "none", type |-> "", cause |-> <<>>]

NotRegisteredUnnamed(T) == [kind |-> "notreg", type |-> "", cause |-> <<>>]

\* fmt.Errorf("service of type %s not registered", serviceType.String())
NotRegistered(T) == [kind |-> "notreg", type |-> T, cause |-> <<>>]

\* fmt.Errorf("failed to resolve dependency %s: %w", argType.String(), err)
DepFailed(P, err) == [kind |-> "dep", type |-> P, cause |-> <<err>>]

\* results[1].Interface().(error): the factory's own error value
FactoryError(f) == [kind |-> "factory", type |-> f, cause |-> <<>>]

\* the three fmt.Errorf of Register's signature checks
Malformed(msg) == [kind |-> "malformed", type |-> msg, cause |-> <<>>]
\* "factory return type %s does not implement interface %s" / "... does not match service type %s"
Mismatch(R, S) == [kind |-> "mismatch", type |-> S, cause |-> <<R>>]

Result(v, e) == [val |-> v, err |-> e, flag |-> FALSE, types |-> <<>>]
NoResult == Result(Nil, NoErr)

-----------------------------------------------------------------------------
(* sync.RWMutex *)

FreeLock == [w |-> NoThread, held |-> FALSE, r |-> [t \in Threads |-> 0]]

\* RLock blocks while a writer holds the lock or has announced itself
CanRLock(m) == m.w = NoThread
RLockSkipped(m, t) == m
RLock(m, t) == [m EXCEPT !.r[t] = @ + 1]
RUnlock(m, t) == [m EXCEPT !.r[t] = @ - 1]
\* Lock first excludes other writers and announces itself to readers ...
CanLock(m) == m.w = NoThread
LockAnnounce(m, t) == [m EXCEPT !.w = t]
NoReadersIgnored(m) == TRUE
\* ... then waits for the active readers to leave
NoReaders(m) == \A u \in Threads : m.r[u] = 0
LockAcquire(m) == [m EXCEPT !.held = TRUE]
Unlock(m) == [m EXCEPT !.w = NoThread, !.held = FALSE]

-----------------------------------------------------------------------------
(* Call stacks *)

Frame(fn, pc, token, key) ==
    [fn |-> fn, pc |-> pc, token |-> token, key |-> key, fac |-> "", lc |-> "",
     d |-> 0, i |-> 1, j |-> 1, args |-> <<>>, li |-> 0, op |-> ""]

Idle(t) == stack[t] = <<>>
Top(t) == stack[t][Len(stack[t])]
Below(t) == SubSeq(stack[t], 1, Len(stack[t]) - 1)
At(t, fn, pc) == ~fatal /\ ~Idle(t) /\ Top(t).fn = fn /\ Top(t).pc = pc


\* the ghost record of a goroutine's current or last public call; pre holds the
\* shared state at the call when no other goroutine runs
NoCall == [op |-> "none", token |-> "", fac |-> "", lc |-> "", state |-> "idle", pre |-> <<>>]

Alone(t) == \A u \in Threads \ {t} : cur[u].state = "off"
Snapshot(t) ==
    IF Alone(t) THEN <<[services |-> services, descs |-> descs, invlog |-> invlog, nextInst |-> nextInst]>> ELSE <<>>

CanStart(t) == ~fatal /\ Idle(t) /\ cur[t].state \in {"idle", "returned"}

Begin(t, op, token, fac, lc) ==
    [cur EXCEPT ![t] = [op |-> op, token |-> token, fac |-> fac, lc |-> lc,
                        state |-> "running", pre |-> Snapshot(t)]]

\* the top frame returns r to its caller; the result of a public call is kept
\* for observation when the goroutine has the container for itself
Return(t, r) ==
    /\ stack' = [stack EXCEPT ![t] = Below(t)]
    /\ ret' = [ret EXCEPT ![t] = IF Len(stack[t]) = 1 /\ ~Alone(t) THEN NoResult ELSE r]
    /\ cur' = IF Len(stack[t]) > 1 THEN cur
              ELSE IF Alone(t) THEN [cur EXCEPT ![t].state = "returned"]
              ELSE [cur EXCEPT ![t] = NoCall]

\* the top frame becomes top and calls callee; the call that finds the stack
\* full ends the program (fatal error: stack overflow)
CallFrom(t, top, callee) ==
    IF Len(stack[t]) >= MaxDepth
    THEN /\ fatal' = TRUE
         /\ stack' = stack
    ELSE /\ fatal' = fatal
         /\ stack' = [stack EXCEPT ![t] = Append(Append(Below(t), top), callee)]

NoServices == [k \in Types |-> 0]
Has(k) == services[k] # 0
RegisteredEver == {descs[d].ServiceType : d \in 1..Len(descs)}

\* the keys of c.services
Registered == {k \in Types : Has(k)}

InitShared ==
    /\ services = NoServices
    /\ descs = <<>>
    /\ dmu = <<>>
    /\ cmu = FreeLock
    /\ stack = [t \in Threads |-> <<>>]
    /\ ret = [t \in Threads |-> NoResult]
    /\ nextInst = 1
    /\ invlog = <<>>
    /\ budget = MaxOps
    /\ fatal = FALSE

\* NewContainer(), used by two goroutines
Init ==
    /\ InitShared
    /\ wiring \in Shared
    /\ cur = [t \in Threads |-> NoCall]

\* NewContainer(), used by one goroutine
InitSeq ==
    /\ InitShared
    /\ wiring \in Wirings
    /\ cur = [t \in Threads |-> IF t = "t1" THEN NoCall ELSE [NoCall EXCEPT !.state = "off"]]

-----------------------------------------------------------------------------
(* Container.Register *)

TypeCompatibleUnchecked(R, sType) ==
    IF Kind(sType) = "Interface"
    THEN TRUE
    ELSE \/ R = sType
         \/ Kind(R) = "Ptr" /\ Elem(R) = sType
         \/ Kind(sType) = "Ptr" /\ Elem(sType) = R

TypeCompatibleExact(R, sType) ==
    IF Kind(sType) = "Interface" THEN Implements(R, sType) ELSE R = sType

\* the type compatibility check of Register
TypeCompatible(R, sType) ==
    IF Kind(sType) = "Interface"
    THEN Implements(R, sType)
    ELSE \/ R = sType
         \/ Kind(R) = "Ptr" /\ Elem(R) = sType
         \/ Kind(sType) = "Ptr" /\ Elem(sType) = R

RegisterCheck(sType, f) ==
    LET F == Factories[f] IN
    IF ~F.func THEN Malformed("factory must be a function")
    ELSE IF Len(F.out) # 1 /\ Len(F.out) # 2
    THEN Malformed("factory function must return 1 or 2 values")
    ELSE IF Len(F.out) = 2 /\ ~Implements(F.out[2], "error")
    THEN Malformed("second return value must be an error")
    ELSE IF ~TypeCompatible(F.out[1], sType) THEN Mismatch(F.out[1], sType)
    ELSE NoErr

NewDescriptorInherit(sType, f, lc) ==
    [ServiceType |-> sType, Factory |-> f, Lifecycle |-> lc,
     instance |-> IF services[sType] # 0 THEN descs[services[sType]].instance ELSE Nil]

\* descriptor := &ServiceDescriptor{ServiceType: sType, Factory: factory, Lifecycle: lifecycle}
NewDescriptor(sType, f, lc) ==
    [ServiceType |-> sType, Factory |-> f, Lifecycle |-> lc, instance |-> Nil]

StoreDescriptorAlone(sType, d) == [k \in Types |-> IF k = sType THEN d ELSE 0]

\* c.services[sType] = descriptor
StoreDescriptor(sType, d) == [services EXCEPT ![sType] = d]

\* factoryType := reflect.TypeOf(factory); factoryType.Kind(): the Type of an
\* untyped nil is the nil interface, and the call of its method panics
KindPanics(f) == Factories[f].untyped

\* the call, and c.mu.Lock(), first half: the writer announces itself
RegisterVia(t, op, token, f, lc) ==
    /\ CanStart(t)
    /\ budget > 0
    /\ CanLock(cmu)
    /\ budget' = budget - 1
    /\ cmu' = LockAnnounce(cmu, t)
    /\ stack' = [stack EXCEPT ![t] =
                    <<[Frame("Register", "Locked", token, StripPtr(token)) EXCEPT !.fac = f, !.lc = lc]>>]
    /\ cur' = Begin(t, op, token, f, lc)
    /\ UNCHANGED <<services, descs, dmu, ret, nextInst, invlog, fatal, wiring>>

\* a public call of Register
RegisterLock(t, token, f, lc) ==
    /\ wiring \notin ByHelper
    /\ RegisterVia(t, "Register", token, f, lc)

\* RegisterType[T](c, factory func(*Container) T, lifecycle):
\* c.Register((*T)(nil), factory, lifecycle)
RegisterType(t, token, f, lc) ==
    LET F == Factories[f] IN
    /\ F.helper = "" /\ F.func /\ F.in = <<"PContainer">> /\ Len(F.out) = 1
    /\ token = PtrTo(F.out[1])
    /\ RegisterVia(t, "RegisterType", token, f, lc)

\* RegisterInterface[TInterface, TImplementation](c, factory, lifecycle):
\* c.Register((*TInterface)(nil), wrapper, lifecycle)
RegisterInterface(t, token, f, lc) ==
    LET F == Factories[f] IN
    /\ F.helper = "RegisterInterface"
    /\ token = PtrTo(F.out[1])
    /\ RegisterVia(t, "RegisterInterface", token, f, lc)

\* RegisterValue[T](c, value): c.RegisterSingleton((*T)(nil), func() T { return value })
RegisterValue(t, token, f) ==
    LET F == Factories[f] IN
    /\ F.helper = "RegisterValue"
    /\ token = PtrTo(F.out[1])
    /\ RegisterVia(t, "RegisterValue", token, f, "Singleton")

\* c.RegisterFunc(factory, lifecycle): factoryType.Kind() panics for an untyped
\* nil; a non-function and a function without results are refused before any
\* lock is taken; otherwise c.Register(reflect.New(returnType).Interface(), ...)
RegisterFunc(t, f, lc) ==
    LET F == Factories[f] IN
    /\ wiring = Funcs
    /\ IF KindPanics(f) \/ ~F.func \/ Len(F.out) = 0
       THEN /\ CanStart(t)
            /\ budget > 0
            /\ budget' = budget - 1
            /\ cur' = [Begin(t, "RegisterFunc", "", f, lc) EXCEPT
                          ![t].state = IF KindPanics(f) THEN "panicked"
                                       ELSE IF Alone(t) THEN "returned" ELSE "idle"]
            /\ ret' = [ret EXCEPT ![t] =
                          IF KindPanics(f) \/ ~Alone(t) THEN NoResult
                          ELSE IF ~F.func THEN Result(Nil, Malformed("factory must be a function"))
                          ELSE Result(Nil, Malformed("factory function must return at least one value"))]
            /\ UNCHANGED <<services, descs, dmu, cmu, stack, nextInst, invlog, fatal, wiring>>
       ELSE RegisterVia(t, "RegisterFunc", PtrTo(F.out[1]), f, lc)

\* c.mu.Lock(), second half, the body of Register and the deferred c.mu.Unlock()
RegisterBody(t) ==
    /\ At(t, "Register", "Locked")
    /\ NoReaders(cmu)
    /\ LET fr == Top(t)
           err == RegisterCheck(fr.key, fr.fac)
       IN IF KindPanics(fr.fac)
          THEN /\ stack' = [stack EXCEPT ![t] = <<>>]
               /\ cur' = [cur EXCEPT ![t].state = "panicked"]
               /\ ret' = [ret EXCEPT ![t] = NoResult]
               /\ UNCHANGED <<services, descs, dmu, invlog>>
          ELSE /\ IF err = NoErr
                  THEN /\ descs' = Append(descs, NewDescriptor(fr.key, fr.fac, fr.lc))
                       /\ dmu' = Append(dmu, FreeLock)
                       /\ invlog' = Append(invlog, <<>>)
                       /\ services' = StoreDescriptor(fr.key, Len(descs) + 1)
                  ELSE UNCHANGED <<services, descs, dmu, invlog>>
               /\ Return(t, Result(Nil, err))
    /\ cmu' = Unlock(LockAcquire(cmu))
    /\ UNCHANGED <<nextInst, budget, fatal, wiring>>

-----------------------------------------------------------------------------
(* Container.Clear *)

\* the call, and c.mu.Lock(), first half: the writer announces itself
ClearLock(t) ==
    /\ CanStart(t)
    /\ CanLock(cmu)
    /\ cmu' = LockAnnounce(cmu, t)
    /\ stack' = [stack EXCEPT ![t] = <<Frame("Clear", "Locked", "", "")>>]
    /\ cur' = Begin(t, "Clear", "", "", "")
    /\ UNCHANGED <<services, descs, dmu, ret, nextInst, invlog, budget, fatal, wiring>>

EmptiedKeeping(old) == old

\* make(map[reflect.Type]*ServiceDescriptor)
Emptied(old) == NoServices

\* c.mu.Lock(), second half, c.services = make(...) and the deferred c.mu.Unlock()
ClearBody(t) ==
    /\ At(t, "Clear", "Locked")
    /\ NoReaders(cmu)
    /\ services' = Emptied(services)
    /\ cmu' = Unlock(LockAcquire(cmu))
    /\ Return(t, NoResult)
    /\ UNCHANGED <<descs, dmu, nextInst, invlog, budget, fatal, wiring>>

-----------------------------------------------------------------------------
(* Container.Has and Container.GetServiceTypes *)

\* the result of a public call that takes one step
Finish(t, op, token, r) ==
    IF Alone(t)
    THEN /\ cur' = [Begin(t, op, token, "", "") EXCEPT ![t].state = "returned"]
         /\ ret' = [ret EXCEPT ![t] = r]
    ELSE UNCHANGED <<cur, ret>>

HasResultUnstripped(token) == [NoResult EXCEPT !.flag = Has(token)]

\* c.mu.RLock(); _, exists := c.services[sType]; c.mu.RUnlock()
HasResult(token) == [NoResult EXCEPT !.flag = Has(StripPtr(token))]

\* a public call of Has
HasCall(t, token) ==
    /\ wiring \in Queried
    /\ CanStart(t)
    /\ CanRLock(cmu)
    /\ Finish(t, "Has", token, HasResult(token))
    /\ UNCHANGED <<services, descs, dmu, cmu, stack, nextInst, invlog, budget, fatal, wiring>>

\* Has called by a running factory on the injected container
HasBody(t) ==
    /\ At(t, "Has", "RLock")
    /\ CanRLock(cmu)
    /\ Return(t, HasResult(Top(t).token))
    /\ UNCHANGED <<services, descs, dmu, cmu, nextInst, invlog, budget, fatal, wiring>>

\* for serviceType := range c.services { types = append(types, serviceType) }:
\* the keys in the order in which the map is iterated, which is any order
Orders(S) ==
    {f \in [1..Cardinality(S) -> S] : \A m, n \in 1..Cardinality(S) : m # n => f[m] # f[n]}

\* c.mu.RLock(); the keys of c.services; c.mu.RUnlock()
GetServiceTypes(t) ==
    /\ wiring \in Queried
    /\ CanStart(t)
    /\ CanRLock(cmu)
    /\ \E types \in Orders(Registered) :
          Finish(t, "GetServiceTypes", "", [NoResult EXCEPT !.types = types])
    /\ UNCHANGED <<services, descs, dmu, cmu, stack, nextInst, invlog, budget, fatal, wiring>>

-----------------------------------------------------------------------------
(* Container.Resolve *)

\* the call, c.mu.RLock(); defer c.mu.RUnlock(); ... c.resolveType(sType)
ResolveRLock(t, op, token) ==
    /\ CanStart(t)
    /\ budget > 0
    /\ CanRLock(cmu)
    /\ budget' = budget - 1
    /\ cmu' = RLock(cmu, t)
    /\ stack' = [stack EXCEPT ![t] =
                    << [Frame("Resolve", "ret", token, StripPtr(token)) EXCEPT !.op = op],
                       Frame("resolveType", "lookup", "", StripPtr(token)) >>]
    /\ cur' = Begin(t, op, token, "", "")
    /\ UNCHANGED <<services, descs, dmu, ret, nextInst, invlog, fatal, wiring>>

\* MustResolve[T](c) called by a running factory on the injected container:
\* c.Resolve((*T)(nil)) takes the registry's read lock once more
NestedRLock(t) ==
    /\ At(t, "MustResolve", "RLock")
    /\ CanRLock(cmu)
    /\ IF Len(stack[t]) >= MaxDepth
       THEN /\ fatal' = TRUE
            /\ UNCHANGED <<stack, cmu>>
       ELSE /\ fatal' = fatal
            /\ cmu' = RLock(cmu, t)
            /\ stack' = [stack EXCEPT ![t] =
                   Below(t) \o << [Frame("Resolve", "ret", Top(t).token, Top(t).key)
                                      EXCEPT !.op = "MustResolve"],
                                  Frame("resolveType", "lookup", "", Top(t).key) >>]
    /\ UNCHANGED <<services, descs, dmu, ret, nextInst, invlog, budget, cur, wiring>>

\* the dynamic type of a value held in an interface{}: a factory declared to
\* return an interface returns a pointer to the struct that implements it
DynType(v) ==
    IF v.by = 0 THEN "PA"
    ELSE LET F == Factories[descs[v.by].Factory] IN
         IF F.impl # "" THEN F.impl
         ELSE IF F.out[1] = "I" THEN "PA"
         ELSE IF F.out[1] = "J" THEN "PB"
         ELSE F.out[1]

\* result.(T) without the comma-ok form: panics on a nil interface and on a
\* dynamic type that is not T (or, for an interface T, does not implement it)
Asserts(v, T) ==
    /\ v # Nil
    /\ IF Kind(T) = "Interface" THEN Implements(DynType(v), T) ELSE DynType(v) = T

\* what the generic helper called as op makes of the result r of
\* Resolve((*T)(nil)); flag is the boolean of TryResolve
HelperPanics(op, r, T) ==
    \/ op = "MustResolve" /\ r.err # NoErr
    \/ op \in {"MustResolve", "TryResolve"} /\ r.err = NoErr /\ ~Asserts(r.val, T)
HelperResult(op, r) ==
    CASE op = "MustResolve" -> r
      [] op = "TryResolve" -> IF r.err # NoErr THEN NoResult ELSE [r EXCEPT !.flag = TRUE]
      [] OTHER -> r

-----------------------------------------------------------------------------
(* Container.resolveType *)

MuShared(d) == 1

\* descriptor.mu: every descriptor has a lock of its own
Mu(d) == d

Desc(fr) == descs[fr.d]

SingletonBranchAlways(d) == TRUE

\* if descriptor.Lifecycle == Singleton
SingletonBranch(d) == descs[d].Lifecycle = "Singleton"

\* the frame runs the Singleton branch, whose deferred Unlock is pending
IsSingleton(fr) == SingletonBranch(fr.d)

\* if descriptor.instance != nil
CacheHit(d) == descs[d].instance # Nil

\* descriptor, exists := c.services[serviceType]
Lookup(t) ==
    /\ At(t, "resolveType", "lookup")
    /\ LET k == Top(t).key IN
       IF ~Has(k)
       THEN Return(t, Result(Nil, NotRegistered(k)))
       ELSE /\ stack' = [stack EXCEPT ![t][Len(stack[t])] =
                  [@ EXCEPT !.d = services[k],
                            !.pc = IF SingletonBranch(services[k]) THEN "fast" ELSE "create"]]
            /\ UNCHANGED <<ret, cur>>
    /\ UNCHANGED <<services, descs, dmu, cmu, nextInst, invlog, budget, fatal, wiring>>

\* descriptor.mu.RLock()
FastRLock(t) ==
    /\ At(t, "resolveType", "fast")
    /\ CanRLock(dmu[Mu(Top(t).d)])
    /\ dmu' = [dmu EXCEPT ![Mu(Top(t).d)] = RLock(@, t)]
    /\ stack' = [stack EXCEPT ![t][Len(stack[t])].pc = "check"]
    /\ UNCHANGED <<services, descs, cmu, ret, nextInst, invlog, budget, fatal, cur, wiring>>

\* the first check of the cache and descriptor.mu.RUnlock()
FastCheck(t) ==
    /\ At(t, "resolveType", "check")
    /\ dmu' = [dmu EXCEPT ![Mu(Top(t).d)] = RUnlock(@, t)]
    /\ IF CacheHit(Top(t).d)
       THEN Return(t, Result(descs[Top(t).d].instance, NoErr))
       ELSE /\ stack' = [stack EXCEPT ![t][Len(stack[t])].pc = "lock"]
            /\ UNCHANGED <<ret, cur>>
    /\ UNCHANGED <<services, descs, cmu, nextInst, invlog, budget, fatal, wiring>>

\* descriptor.mu.Lock(), first half: the writer announces itself
SlowLock(t) ==
    /\ At(t, "resolveType", "lock")
    /\ CanLock(dmu[Mu(Top(t).d)])
    /\ dmu' = [dmu EXCEPT ![Mu(Top(t).d)] = LockAnnounce(@, t)]
    /\ stack' = [stack EXCEPT ![t][Len(stack[t])].pc = "lockwait"]
    /\ UNCHANGED <<services, descs, cmu, ret, nextInst, invlog, budget, fatal, cur, wiring>>

\* descriptor.mu.Lock(), second half, and the second check of the cache
SlowAcquire(t) ==
    /\ At(t, "resolveType", "lockwait")
    /\ NoReaders(dmu[Mu(Top(t).d)])
    /\ IF CacheHit(Top(t).d)
       THEN /\ dmu' = [dmu EXCEPT ![Mu(Top(t).d)] = Unlock(LockAcquire(@))]
            /\ Return(t, Result(descs[Top(t).d].instance, NoErr))
       ELSE /\ dmu' = [dmu EXCEPT ![Mu(Top(t).d)] = LockAcquire(@)]
            /\ stack' = [stack EXCEPT ![t][Len(stack[t])].pc = "create"]
            /\ UNCHANGED <<ret, cur>>
    /\ UNCHANGED <<services, descs, cmu, nextInst, invlog, budget, fatal, wiring>>

\* the deferred descriptor.mu.Unlock() of the Singleton branch
ReleaseDescriptor(fr) ==
    IF IsSingleton(fr) THEN [dmu EXCEPT ![Mu(fr.d)] = Unlock(@)] ELSE dmu

-----------------------------------------------------------------------------
(* Container.createInstance *)

NumIn(fr) == Len(Factories[Desc(fr).Factory].in)
ArgType(fr) == Factories[Desc(fr).Factory].in[fr.i]

IsContainerTypeNever(P) == FALSE

\* if argType == reflect.TypeOf((*Container)(nil))
IsContainerType(P) == P = "PContainer"

ParamKeyStripped(P) == StripPtr(P)

\* arg, err := c.resolveType(argType): the parameter type itself is the key
ParamKey(P) == P

\* one round of the parameter loop: bind the container or resolve the parameter type
CreateArg(t) ==
    /\ At(t, "resolveType", "create")
    /\ Top(t).i <= NumIn(Top(t))
    /\ IF IsContainerType(ArgType(Top(t)))
       THEN /\ stack' = [stack EXCEPT ![t][Len(stack[t])] =
                  [@ EXCEPT !.args = Append(@, ContainerValue), !.i = @ + 1]]
            /\ fatal' = fatal
       ELSE CallFrom(t, [Top(t) EXCEPT !.pc = "arg"],
                     Frame("resolveType", "lookup", "", ParamKey(ArgType(Top(t)))))
    /\ UNCHANGED <<services, descs, dmu, cmu, ret, nextInst, invlog, budget, cur, wiring>>

\* arg, err := c.resolveType(argType); if err != nil { return nil, fmt.Errorf(...) }
ArgReturn(t) ==
    /\ At(t, "resolveType", "arg")
    /\ IF ret[t].err # NoErr
       THEN /\ Return(t, Result(Nil, DepFailed(ArgType(Top(t)), ret[t].err)))
            /\ dmu' = ReleaseDescriptor(Top(t))
       ELSE /\ stack' = [stack EXCEPT ![t][Len(stack[t])] =
                  [@ EXCEPT !.args = Append(@, ret[t].val), !.i = @ + 1, !.pc = "create"]]
            /\ UNCHANGED <<ret, cur, dmu>>
    /\ UNCHANGED <<services, descs, cmu, nextInst, invlog, budget, fatal, wiring>>

\* the locks the deferred calls of t's frames release when a panic unwinds its stack
HoldsRead(fr) == fr.fn = "Resolve" /\ fr.pc = "ret"
HoldsWrite(fr) == fr.fn = "resolveType" /\ fr.pc \in {"create", "arg", "exec"} /\ IsSingleton(fr)
ReadHolds(t) == Cardinality({n \in 1..Len(stack[t]) : HoldsRead(stack[t][n])})
WriteHeld(t, d) == \E n \in 1..Len(stack[t]) : HoldsWrite(stack[t][n]) /\ Mu(stack[t][n].d) = d

UnwindLeaking(t) ==
    /\ UNCHANGED <<cmu, dmu>>
    /\ stack' = [stack EXCEPT ![t] = <<>>]
    /\ cur' = [cur EXCEPT ![t].state = "panicked"]
    /\ ret' = [ret EXCEPT ![t] = NoResult]

\* a panic leaves through every frame of the goroutine and runs their deferred
\* unlocks; the caller of the public call recovers it or the program ends
Unwind(t) ==
    /\ cmu' = [cmu EXCEPT !.r[t] = @ - ReadHolds(t)]
    /\ dmu' = [d \in 1..Len(dmu) |-> IF WriteHeld(t, d) THEN Unlock(dmu[d]) ELSE dmu[d]]
    /\ stack' = [stack EXCEPT ![t] = <<>>]
    /\ cur' = [cur EXCEPT ![t].state = "panicked"]
    /\ ret' = [ret EXCEPT ![t] = NoResult]

\* return c.resolveType(sType), then the deferred c.mu.RUnlock(); a generic
\* helper then converts the result, or panics: in its caller, or in the
\* factory that called it, which the panic leaves with all that called it
ResolveReturn(t) ==
    /\ At(t, "Resolve", "ret")
    /\ IF HelperPanics(Top(t).op, ret[t], Top(t).key)
       THEN IF Len(stack[t]) = 1
            THEN /\ cmu' = RUnlock(cmu, t)
                 /\ dmu' = dmu
                 /\ stack' = [stack EXCEPT ![t] = <<>>]
                 /\ cur' = [cur EXCEPT ![t].state = "panicked"]
                 /\ ret' = [ret EXCEPT ![t] = IF Alone(t) THEN ret[t] ELSE NoResult]
            ELSE Unwind(t)
       ELSE /\ cmu' = RUnlock(cmu, t)
            /\ dmu' = dmu
            /\ Return(t, HelperResult(Top(t).op, ret[t]))
    /\ UNCHANGED <<services, descs, nextInst, invlog, budget, fatal, wiring>>

\* the caller of a public call that panicked has recovered the panic
Recover(t) ==
    /\ ~fatal
    /\ Idle(t)
    /\ cur[t].state = "panicked"
    /\ cur' = [cur EXCEPT ![t] = NoCall]
    /\ ret' = [ret EXCEPT ![t] = NoResult]
    /\ UNCHANGED <<services, descs, dmu, cmu, stack, nextInst, invlog, budget, fatal, wiring>>

\* results := factoryValue.Call(args): reflect panics on an argument that is a nil interface
CallFactory(t) ==
    /\ At(t, "resolveType", "create")
    /\ Top(t).i > NumIn(Top(t))
    /\ IF \E n \in 1..Len(Top(t).args) : Top(t).args[n] = Nil
       THEN /\ Unwind(t)
            /\ UNCHANGED invlog
       ELSE /\ invlog' = [invlog EXCEPT ![Top(t).d] = Append(@, "run")]
            /\ stack' = [stack EXCEPT ![t][Len(stack[t])] =
                  [@ EXCEPT !.pc = "exec", !.li = Len(invlog[Top(t).d]) + 1]]
            /\ UNCHANGED <<cmu, dmu, cur, ret>>
    /\ UNCHANGED <<services, descs, nextInst, budget, fatal, wiring>>

\* the running factory calls a method of the injected container
FactoryBodyCall(t) ==
    /\ At(t, "resolveType", "exec")
    /\ Top(t).j <= Len(Factories[Desc(Top(t)).Factory].body)
    /\ LET c == Factories[Desc(Top(t)).Factory].body[Top(t).j]
       IN CallFrom(t, [Top(t) EXCEPT !.j = @ + 1],
                   Frame(c.op, "RLock", c.token, StripPtr(c.token)))
    /\ UNCHANGED <<services, descs, dmu, cmu, ret, nextInst, invlog, budget, cur, wiring>>

StoreInstanceAlways(fr, v) == [descs EXCEPT ![fr.d].instance = v]

\* descriptor.instance = instance
StoreInstance(fr, v) ==
    IF IsSingleton(fr) THEN [descs EXCEPT ![fr.d].instance = v] ELSE descs

\* reflect.Value.IsNil is defined for the kinds that have a nil value and
\* panics for every other kind
CanBeNil(T) == Kind(T) \in {"Ptr", "Interface"}

ProductFresh(fr, o) ==
    IF o \in {"ok", "val"} THEN Instance(nextInst, fr.d, fr.args) ELSE Nil

\* results[0] of an invocation: a newly constructed instance, the value the
\* factory closes over, or nil
Product(fr, o) ==
    CASE o = "ok" -> Instance(nextInst, fr.d, fr.args)
      [] o = "val" -> Captured(Desc(fr).Factory)
      [] OTHER -> Nil

\* the factory returns (or panics); if len(results) == 2 && !results[1].IsNil() the error is
\* returned, else results[0].Interface(), which resolveType caches for a Singleton
FactoryReturn(t, o) ==
    /\ At(t, "resolveType", "exec")
    /\ Top(t).j > Len(Factories[Desc(Top(t)).Factory].body)
    /\ o \in Factories[Desc(Top(t)).Factory].outcomes
    /\ LET fr == Top(t)
           F == Factories[Desc(fr).Factory]
           v == Product(fr, o)
       IN /\ invlog' = [invlog EXCEPT ![fr.d][fr.li] = o]
          /\ nextInst' = IF o = "ok" THEN nextInst + 1 ELSE nextInst
          /\ IF o = "panic" \/ (Len(F.out) = 2 /\ ~CanBeNil(F.out[2]))
             THEN /\ Unwind(t)
                  /\ UNCHANGED descs
             ELSE /\ IF o = "err"
                     THEN /\ Return(t, Result(Nil, FactoryError(Desc(fr).Factory)))
                          /\ UNCHANGED descs
                     ELSE /\ Return(t, Result(v, NoErr))
                          /\ descs' = StoreInstance(fr, v)
                  /\ dmu' = ReleaseDescriptor(fr)
                  /\ UNCHANGED cmu
    /\ UNCHANGED <<services, budget, fatal, wiring>>

-----------------------------------------------------------------------------
(* Specifications *)

\* the registrations through the helpers that derive the token from a type
\* parameter or from the factory
Helpers(t) ==
    \/ \E in \in wiring : RegisterType(t, in[1], in[2], in[3])
    \/ \E in \in wiring : RegisterInterface(t, in[1], in[2], in[3])
    \/ \E in \in wiring : RegisterFunc(t, in[2], in[3])

Step(t) ==
    \/ \E in \in wiring : RegisterLock(t, in[1], in[2], in[3])
    \/ RegisterBody(t)
    \/ ClearLock(t)
    \/ ClearBody(t)
    \/ \E token \in Tokens : HasCall(t, token)
    \/ HasBody(t)
    \/ GetServiceTypes(t)
    \/ \E in \in wiring : RegisterValue(t, in[1], in[2])
    \/ \E token \in Tokens : \E op \in ResolveOps(token) : ResolveRLock(t, op, token)
    \/ NestedRLock(t)
    \/ ResolveReturn(t)
    \/ Recover(t)
    \/ Lookup(t)
    \/ FastRLock(t)
    \/ FastCheck(t)
    \/ SlowLock(t)
    \/ SlowAcquire(t)
    \/ CreateArg(t)
    \/ ArgReturn(t)
    \/ CallFactory(t)
    \/ FactoryBodyCall(t)
    \/ \E o \in {"ok", "nil", "err", "val", "panic"} : FactoryReturn(t, o)

Next == \E t \in Threads : Step(t)

\* two goroutines share the container
Spec == Init /\ [][Next]_vars

\* one goroutine uses the container, and registers through the helpers as well
NextSeq == \E t \in Threads : Step(t) \/ Helpers(t)
SpecSeq == InitSeq /\ [][NextSeq]_vars

-----------------------------------------------------------------------------
(* Observations used by the properties *)

\* goroutine t has returned from a public call of op that it made alone
Returned(t, op) == cur[t].state = "returned" /\ cur[t].op = op /\ cur[t].pre # <<>>
Pre(t) == cur[t].pre[1]
Key(t) == IF Kind(cur[t].token) = "Ptr" THEN Elem(cur[t].token) ELSE cur[t].token
Failed(t) == ret[t].err.kind # "none"
\* v was constructed by a factory invocation (it is neither nil, the container,
\* nor a value that existed before its registration)
Constructed(v) == v.id > 0

\* the factory invocations of descriptor d made since the call of t began
NewCalls(t, d) ==
    IF d <= Len(Pre(t).invlog)
    THEN SubSeq(invlog[d], Len(Pre(t).invlog[d]) + 1, Len(invlog[d]))
    ELSE invlog[d]

Successes(log) == {n \in 1..Len(log) : log[n] \in {"ok", "nil"}}
SingletonDescs == {d \in 1..Len(descs) : descs[d].Lifecycle = "Singleton"}
TransientDescs == {d \in 1..Len(descs) : descs[d].Lifecycle = "Transient"}

\* goroutine t is inside a public Resolve of key k
Resolving(t, k) == ~Idle(t) /\ stack[t][1].fn = "Resolve" /\ stack[t][1].key = k

-----------------------------------------------------------------------------
(* Properties *)

\* C1: while two goroutines are both inside Resolve of the same Singleton type,
\* the factory of its descriptor has returned an instance without error at
\* most once (the callers race for one creation).
CX_C1 ==
    \A t, u \in Threads, k \in Types :
        (t # u /\ Resolving(t, k) /\ Resolving(u, k) /\ Has(k)
              /\ services[k] \in SingletonDescs)
            => Cardinality(Successes(invlog[services[k]])) <= 1

\* C2: for a Singleton descriptor no invocation of the factory follows one
\* that returned without error, whatever value it returned.
CX_C2 ==
    \A d \in SingletonDescs :
        \A n \in 1..(Len(invlog[d]) - 1) : invlog[d][n] \notin {"ok", "nil"}


\* the instance and everything injected into it that was created at or after
\* instance number n holds, for each Transient parameter, an instance created
\* at or after n as well
RECURSIVE TransientsFresh(_, _)
TransientsFresh(v, n) ==
    v.id >= n =>
        \A m \in 1..Len(v.deps) :
            /\ (v.deps[m].id > 0 /\ v.deps[m].by \in TransientDescs) => v.deps[m].id >= n
            /\ TransientsFresh(v.deps[m], n)

\* C3: nothing is ever cached for a Transient descriptor, and a Resolve of a
\* Transient type invokes the factory once more and returns the product of
\* that invocation, an instance that did not exist before the call; the same
\* holds for every Transient parameter of an instance created in the call.
T_C3 ==
    /\ \A d \in TransientDescs : descs[d].instance = Nil
    /\ \A t \in Threads :
        (Returned(t, "Resolve") /\ ~Failed(t)) =>
            LET d == Pre(t).services[Key(t)] IN
            /\ d \in TransientDescs =>
                  /\ NewCalls(t, d) \in {<<"ok">>, <<"nil">>}
                  /\ NewCalls(t, d) = <<"nil">> => ret[t].val = Nil
                  /\ NewCalls(t, d) = <<"ok">> =>
                        (ret[t].val.by = d /\ ret[t].val.id >= Pre(t).nextInst)
            /\ TransientsFresh(ret[t].val, Pre(t).nextInst)

\* a second Resolve of a Transient type returned a second instance
W_C3 ==
    \E t \in Threads :
        /\ Returned(t, "Resolve") /\ ~Failed(t)
        /\ Pre(t).services[Key(t)] \in TransientDescs
        /\ Cardinality({n \in 1..Len(invlog[Pre(t).services[Key(t)]]) :
                            invlog[Pre(t).services[Key(t)]][n] = "ok"}) >= 2
        /\ ret[t].val.id >= 2


\* the goroutines t cannot proceed without: the announced writer of the lock
\* it wants to read or write, the readers of the lock it has announced for
WaitsFor(t) ==
    IF Idle(t) \/ fatal THEN {}
    ELSE LET fr == Top(t) IN
         CASE fr.fn \in {"Register", "Clear"} /\ fr.pc = "Locked" ->
                  {u \in Threads : cmu.r[u] > 0}
           [] fr.fn \in {"Has", "MustResolve"} /\ fr.pc = "RLock" ->
                  {u \in Threads : cmu.w = u}
           [] fr.fn = "resolveType" /\ fr.pc \in {"fast", "lock"} ->
                  {u \in Threads : dmu[Mu(fr.d)].w = u}
           [] fr.fn = "resolveType" /\ fr.pc = "lockwait" ->
                  {u \in Threads : dmu[Mu(fr.d)].r[u] > 0}
           [] OTHER -> {}

\* a set of goroutines each of which waits for a member of the set
Deadlocked ==
    \E S \in SUBSET Threads : S # {} /\ \A t \in S : WaitsFor(t) \cap S # {}

\* the service types the factory of descriptor d has resolved for it
DependsOn(d) ==
    LET F == Factories[descs[d].Factory] IN
    {F.in[n] : n \in 1..Len(F.in)} \ {"PContainer"}

Successors(k) == UNION {DependsOn(d) : d \in {e \in 1..Len(descs) : descs[e].ServiceType = k}}

RECURSIVE Reach(_, _)
Reach(S, n) == IF n = 0 THEN S ELSE Reach(S \cup UNION {Successors(k) : k \in S}, n - 1)

\* no registered factory depends, directly or transitively, on its own type
Acyclic == \A k \in Types : k \notin Reach(Successors(k), Len(descs))

\* C4: with an acyclic dependency graph no goroutine is blocked forever on
\* the registry lock or on a descriptor lock.
CX_C4 == Acyclic => ~Deadlocked

\* goroutine t waits to read a descriptor lock of which it is the writer
SelfWait(t) == At(t, "resolveType", "fast") /\ dmu[Mu(Top(t).d)].w = t

\* C5 as claimed: the resolving goroutine never waits for a descriptor lock it
\* already holds, whether the types of the cycle are Singleton or Transient.
CX_C5 == \A t \in Threads : ~SelfWait(t)

ResolveFrames(t) == {n \in 1..Len(stack[t]) : stack[t][n].fn = "resolveType" /\ stack[t][n].d > 0}

\* C5 as amended: a goroutine waits for a descriptor lock it holds only at the
\* second visit of a Singleton, where it stays; a resolution that visits a
\* Transient descriptor again goes on, and the stack is exhausted only by a
\* resolution that visits a descriptor again and holds no descriptor lock.
T_C5 ==
    /\ \A t \in Threads :
        /\ SelfWait(t) =>
              /\ Top(t).d \in SingletonDescs
              /\ \E n \in ResolveFrames(t) : n < Len(stack[t]) /\ stack[t][n].d = Top(t).d
        /\ \A n, m \in ResolveFrames(t) :
              (n < m /\ stack[t][n].d = stack[t][m].d /\ stack[t][n].d \in SingletonDescs)
                  => (m = Len(stack[t]) /\ stack[t][m].pc = "fast")
    /\ fatal =>
          \E t \in Threads :
              /\ Len(stack[t]) = MaxDepth
              /\ \A n \in ResolveFrames(t) : stack[t][n].d \in TransientDescs
              /\ \E n, m \in ResolveFrames(t) : n < m /\ stack[t][n].d = stack[t][m].d

\* a cycle of Transient types has exhausted the call stack
W_C5 ==
    /\ fatal
    /\ \E t \in Threads :
          \E n, m \in ResolveFrames(t) :
              n < m /\ stack[t][n].d = stack[t][m].d /\ stack[t][n].d \in TransientDescs

\* C6: a circular dependency is detected and reported as an error, so no
\* resolution runs until the call stack is exhausted.
CX_C6 == ~fatal


Last(log) == log[Len(log)]

\* goroutine t has left a public call of op that it made alone, by a return
\* or by a panic
Ended(t, op) ==
    cur[t].state \in {"returned", "panicked"} /\ cur[t].op = op /\ cur[t].pre # <<>>

\* C7: when the invocation of the requested type's factory returns an error,
\* Resolve returns that very error, unwrapped, and no instance, and the slot
\* of the descriptor is empty; and after a failed creation of a Singleton the
\* next Resolve invokes the factory again, unless a parameter fails first.
CX_C7 ==
    \A t \in Threads :
        (Ended(t, "Resolve") /\ Pre(t).services[Key(t)] # 0) =>
            LET d == Pre(t).services[Key(t)]
                calls == NewCalls(t, d)
            IN /\ (calls # <<>> /\ Last(calls) = "err") =>
                      /\ cur[t].state = "returned"
                      /\ ret[t].err = [kind |-> "factory", type |-> descs[d].Factory, cause |-> <<>>]
                      /\ ret[t].val = Nil
                      /\ descs[d].instance = Nil
               /\ (/\ d \in SingletonDescs
                   /\ Pre(t).invlog[d] # <<>>
                   /\ Last(Pre(t).invlog[d]) = "err"
                   /\ ret[t].err.kind # "dep") => calls # <<>>

SlotsChanged(t) ==
    {d \in 1..Len(Pre(t).descs) : descs[d].instance # Pre(t).descs[d].instance}

\* C8 as claimed: a Resolve that returns an error leaves the registry mapping
\* and the slot of every descriptor as they were before the call.
CX_C8 ==
    \A t \in Threads :
        (Returned(t, "Resolve") /\ Failed(t)) =>
            (services = Pre(t).services /\ SlotsChanged(t) = {})

\* C8 as amended: a Resolve that returns an error leaves the registry mapping
\* and the set of descriptors as they were, the slot of the requested type
\* empty, and the slot of every descriptor whose creation failed in the call
\* empty; a slot that changed was empty before, belongs to a Singleton
\* parameter and holds the instance its own factory returned in the call.
T_C8 ==
    \A t \in Threads :
        (Returned(t, "Resolve") /\ Failed(t)) =>
            /\ services = Pre(t).services
            /\ Len(descs) = Len(Pre(t).descs)
            /\ Pre(t).services[Key(t)] # 0 => descs[Pre(t).services[Key(t)]].instance = Nil
            /\ \A d \in 1..Len(descs) :
                  (NewCalls(t, d) # <<>> /\ Last(NewCalls(t, d)) = "err") => descs[d].instance = Nil
            /\ \A d \in SlotsChanged(t) :
                  /\ Pre(t).descs[d].instance = Nil
                  /\ d \in SingletonDescs
                  /\ d # Pre(t).services[Key(t)]
                  /\ NewCalls(t, d) = <<"ok">>
                  /\ descs[d].instance.by = d
                  /\ descs[d].instance.id >= Pre(t).nextInst

\* a Resolve returned an error after it had created and cached a Singleton parameter
W_C8 ==
    \E t \in Threads :
        Returned(t, "Resolve") /\ Failed(t) /\ SlotsChanged(t) # {}

\* C9: Resolve of a type that has no descriptor returns the not-registered
\* error that names that type and no instance, invokes no factory and leaves
\* the registry as it was, without a descriptor for the type.
T_C9 ==
    \A t \in Threads :
        (Returned(t, "Resolve") /\ Pre(t).services[Key(t)] = 0) =>
            /\ ret[t].err = [kind |-> "notreg", type |-> Key(t), cause |-> <<>>]
            /\ ret[t].val = Nil
            /\ invlog = Pre(t).invlog
            /\ services = Pre(t).services
            /\ descs = Pre(t).descs
            /\ services[Key(t)] = 0

\* an unregistered type was resolved while another type was registered
W_C9 ==
    \E t \in Threads :
        /\ Returned(t, "Resolve") /\ Pre(t).services[Key(t)] = 0
        /\ \E k \in Types : services[k] # 0
        /\ ret[t].err.kind = "notreg"

\* the parameter types of the factory registered for k before the call of t
ParamsOf(t, k) ==
    IF Pre(t).services[k] = 0 THEN {}
    ELSE LET F == Factories[Pre(t).descs[Pre(t).services[k]].Factory]
         IN {F.in[n] : n \in 1..Len(F.in)}

\* e is what a failed resolution of k returns: a not-registered error naming
\* k, the error of k's own factory, or the failure of one parameter P of k's
\* factory wrapped once around what the failed resolution of P returns
RECURSIVE ErrorChain(_, _, _)
ErrorChain(t, k, e) ==
    CASE e.kind = "notreg" -> e.type = k /\ Pre(t).services[k] = 0
      [] e.kind = "factory" ->
            Pre(t).services[k] # 0 /\ e.type = Pre(t).descs[Pre(t).services[k]].Factory
      [] e.kind = "dep" ->
            e.type \in ParamsOf(t, k) /\ Len(e.cause) = 1 /\ ErrorChain(t, e.type, e.cause[1])
      [] OTHER -> FALSE

\* C10: when the resolution of a parameter P of the requested type's factory
\* fails, also by an error of P's own factory, the factory of the requested
\* type is not invoked and Resolve returns a dependency-resolution-failed
\* error that names P; every error Resolve returns wraps, one wrapping per
\* hop, the original error.
CX_C10 ==
    \A t \in Threads :
        (Ended(t, "Resolve") /\ Pre(t).services[Key(t)] # 0) =>
            /\ \A P \in ParamsOf(t, Key(t)) :
                  (/\ Pre(t).services[P] # 0
                   /\ NewCalls(t, Pre(t).services[P]) # <<>>
                   /\ Last(NewCalls(t, Pre(t).services[P])) = "err") =>
                      /\ cur[t].state = "returned"
                      /\ ret[t].err.kind = "dep" /\ ret[t].err.type = P
                      /\ ret[t].err.cause[1].kind = "factory"
                      /\ ret[t].val = Nil
                      /\ NewCalls(t, Pre(t).services[Key(t)]) = <<>>
            /\ (cur[t].state = "returned" /\ Failed(t)) =>
                  /\ ErrorChain(t, Key(t), ret[t].err)
                  /\ ret[t].err.kind = "dep" => NewCalls(t, Pre(t).services[Key(t)]) = <<>>

-----------------------------------------------------------------------------
(* Register *)

\* the factory of the current call of goroutine t
Given(t) == Factories[cur[t].fac]

\* a function with one result, or with two of which the second is an error
WellFormed(F) ==
    F.func /\ Len(F.out) \in {1, 2} /\ (Len(F.out) = 2 => Implements(F.out[2], "error"))

\* the call of t has changed neither registry nor descriptors nor invocations
Untouched(t) ==
    services = Pre(t).services /\ descs = Pre(t).descs /\ invlog = Pre(t).invlog

\* C11: Register of an interface type S with a factory whose first result
\* type R does not implement S fails and leaves the registry, the descriptors
\* and their cached instances as they were; the error of an otherwise
\* well-formed factory is the type mismatch of R and S.
T_C11 ==
    \A t \in Threads :
        (/\ Returned(t, "Register")
         /\ Kind(Key(t)) = "Interface"
         /\ Given(t).func /\ Len(Given(t).out) >= 1
         /\ ~Implements(Given(t).out[1], Key(t))) =>
            /\ Failed(t)
            /\ Untouched(t)
            /\ WellFormed(Given(t)) =>
                  ret[t].err = [kind |-> "mismatch", type |-> Key(t), cause |-> <<Given(t).out[1]>>]

\* a mismatching Register of a type whose descriptor holds a cached instance
W_C11 ==
    \E t \in Threads :
        /\ Returned(t, "Register")
        /\ ret[t].err.kind = "mismatch"
        /\ Kind(Key(t)) = "Interface"
        /\ services[Key(t)] # 0
        /\ descs[services[Key(t)]].instance # Nil

\* R equals S, or R is the pointer to S, or S is the pointer to R
PointerCompatible(R, S) ==
    \/ R = S
    \/ R \in {"PA", "PB", "PPB", "PContainer"} /\ Elem(R) = S
    \/ S \in {"PA", "PB", "PPB", "PContainer"} /\ Elem(S) = R

\* C12: Register of a concrete type S with a well-formed factory of first
\* result type R succeeds exactly if R is S, the pointer to S, or the type S
\* points to; otherwise it fails with the type mismatch of R and S and leaves
\* the registry as it was.
T_C12 ==
    \A t \in Threads :
        (/\ Returned(t, "Register")
         /\ Kind(Key(t)) # "Interface"
         /\ WellFormed(Given(t))) =>
            LET R == Given(t).out[1]
                S == Key(t)
            IN /\ ~Failed(t) <=> PointerCompatible(R, S)
               /\ ~Failed(t) =>
                     /\ services[S] = Len(descs)
                     /\ descs[Len(descs)].Factory = cur[t].fac
                     /\ descs[Len(descs)].ServiceType = S
               /\ Failed(t) =>
                     /\ ret[t].err = [kind |-> "mismatch", type |-> S, cause |-> <<R>>]
                     /\ Untouched(t)

\* a factory returning the value type B was registered for the pointer type
\* *B, as the first descriptor but not by the first call
W_C12 ==
    \E t \in Threads :
        /\ Returned(t, "Register") /\ ~Failed(t)
        /\ Key(t) = "PB" /\ Given(t).out[1] = "B"
        /\ budget <= MaxOps - 2
        /\ Len(descs) = 1

\* C13: Register with a factory that is not a function, or that is a function
\* with a result count other than 1 or 2, returns a malformed-factory error
\* and leaves the registry as it was.
CX_C13 ==
    \A t \in Threads :
        (Ended(t, "Register") /\ (~Given(t).func \/ Len(Given(t).out) \notin {1, 2})) =>
            /\ cur[t].state = "returned"
            /\ ret[t].err.kind = "malformed"
            /\ Untouched(t)

\* C14: every two-result factory whose second result type has no nil value
\* is rejected by Register with a malformed-factory error, so no registered
\* descriptor has such a factory.
CX_C14 ==
    /\ \A t \in Threads :
          (/\ Ended(t, "Register")
           /\ Given(t).func /\ Len(Given(t).out) = 2
           /\ ~CanBeNil(Given(t).out[2])) =>
              /\ cur[t].state = "returned"
              /\ ret[t].err.kind = "malformed"
              /\ Untouched(t)
    /\ \A d \in 1..Len(descs) :
          Len(Factories[descs[d].Factory].out) = 2 => CanBeNil(Factories[descs[d].Factory].out[2])

\* C15: a successful Register stores under its key a new descriptor with the
\* given factory and lifecycle and an empty slot, whatever descriptor was
\* stored there; every key maps to a descriptor of its own type; a Resolve
\* returns an instance that, if a factory constructed it, was made by the
\* descriptor stored under the key at the call, and neither invokes nor changes a descriptor that has been replaced.
T_C15 ==
    /\ \A k \in Types : services[k] # 0 => descs[services[k]].ServiceType = k
    /\ \A t \in Threads :
        /\ (Returned(t, "Register") /\ ~Failed(t)) =>
              /\ Len(descs) = Len(Pre(t).descs) + 1
              /\ services[Key(t)] = Len(descs)
              /\ descs[Len(descs)] =
                    [ServiceType |-> Key(t), Factory |-> cur[t].fac,
                     Lifecycle |-> cur[t].lc, instance |-> Nil]
        /\ Returned(t, "Resolve") =>
              /\ \A d \in 1..Len(descs) :
                    (\A k \in Types : Pre(t).services[k] # d) =>
                        (NewCalls(t, d) = <<>> /\ descs[d] = Pre(t).descs[d])
              /\ (~Failed(t) /\ Constructed(ret[t].val)) => ret[t].val.by = Pre(t).services[Key(t)]

\* a Register has replaced a descriptor that held a cached instance
W_C15 ==
    \E t \in Threads :
        /\ Returned(t, "Register") /\ ~Failed(t)
        /\ Pre(t).services[Key(t)] # 0
        /\ Pre(t).descs[Pre(t).services[Key(t)]].instance # Nil

\* C16: a successful Register invokes no factory and creates no instance: the
\* invocations and the instance count are as before, the new descriptor's
\* slot is empty, the descriptors that existed are unchanged and so is the
\* registry entry of every other type.
T_C16 ==
    \A t \in Threads :
        (Returned(t, "Register") /\ ~Failed(t)) =>
            /\ invlog = Append(Pre(t).invlog, <<>>)
            /\ nextInst = Pre(t).nextInst
            /\ descs[Len(descs)].instance = Nil
            /\ SubSeq(descs, 1, Len(descs) - 1) = Pre(t).descs
            /\ \A k \in Types \ {Key(t)} : services[k] = Pre(t).services[k]

\* a Register succeeded while another type had a cached instance
W_C16 ==
    \E t \in Threads :
        /\ Returned(t, "Register") /\ ~Failed(t)
        /\ \E k \in Types \ {Key(t)} : services[k] # 0 /\ descs[services[k]].instance # Nil

\* C17: Clear empties the registry and changes no descriptor or instance; on
\* an empty registry Has is false, GetServiceTypes returns nothing and Resolve
\* fails with not-registered; a Singleton with an empty slot whose factory
\* constructs its instance is created by the Resolve that returns it.
T_C17 ==
    \A t \in Threads :
        /\ Returned(t, "Clear") =>
              /\ \A k \in Types : services[k] = 0
              /\ descs = Pre(t).descs
              /\ invlog = Pre(t).invlog
        /\ (Returned(t, "Has") /\ \A k \in Types : Pre(t).services[k] = 0) => ~ret[t].flag
        /\ (Returned(t, "GetServiceTypes") /\ \A k \in Types : Pre(t).services[k] = 0) =>
              ret[t].types = <<>>
        /\ (Returned(t, "Resolve") /\ \A k \in Types : Pre(t).services[k] = 0) =>
              (ret[t].err.kind = "notreg" /\ ret[t].val = Nil)
        /\ (/\ Returned(t, "Resolve") /\ ~Failed(t) /\ Constructed(ret[t].val)
            /\ Pre(t).services[Key(t)] \in SingletonDescs
            /\ Pre(t).descs[Pre(t).services[Key(t)]].instance = Nil) =>
              /\ ret[t].val.id >= Pre(t).nextInst
              /\ ret[t].val.by = Pre(t).services[Key(t)]

\* Clear has emptied a registry that held a descriptor with a cached instance
W_C17 ==
    \E t \in Threads :
        /\ Returned(t, "Clear")
        /\ \E k \in Types : Pre(t).services[k] # 0
        /\ \E d \in 1..Len(descs) : descs[d].instance # Nil

\* C18: Has returns true exactly if a descriptor is stored under the key of
\* its token, and changes nothing.
T_C18 ==
    \A t \in Threads :
        Returned(t, "Has") =>
            /\ ret[t].flag <=> services[Key(t)] # 0
            /\ Untouched(t)
            /\ nextInst = Pre(t).nextInst

\* Has was true for one type and would be false for a type registered before the last Clear
W_C18 ==
    \E t \in Threads :
        /\ Returned(t, "Has") /\ ret[t].flag
        /\ \E d \in 1..Len(descs) : services[descs[d].ServiceType] = 0

\* C19: GetServiceTypes returns the keys that have a descriptor, each once,
\* and changes nothing.
T_C19 ==
    \A t \in Threads :
        Returned(t, "GetServiceTypes") =>
            /\ {ret[t].types[n] : n \in 1..Len(ret[t].types)} = {k \in Types : services[k] # 0}
            /\ Len(ret[t].types) = Cardinality({k \in Types : services[k] # 0})
            /\ Untouched(t)

\* GetServiceTypes returned two keys after one of them had been registered twice
W_C19 ==
    \E t \in Threads :
        /\ Returned(t, "GetServiceTypes")
        /\ Len(ret[t].types) = 2
        /\ Len(descs) = 3

\* C20: a Resolve of a Transient type whose factory has a Singleton parameter
\* returns a new outer instance that holds the Singleton's cached instance,
\* and the Singleton's factory has returned an instance once in total.
CX_C20 ==
    \A t \in Threads :
        (/\ Returned(t, "Resolve") /\ ~Failed(t) /\ ret[t].val # Nil
         /\ Pre(t).services[Key(t)] \in TransientDescs) =>
            LET F == Factories[descs[Pre(t).services[Key(t)]].Factory] IN
            \A n \in 1..Len(F.in) :
                (F.in[n] # "PContainer" /\ services[F.in[n]] \in SingletonDescs) =>
                    /\ ret[t].val.id >= Pre(t).nextInst
                    /\ ret[t].val.deps[n] = descs[services[F.in[n]]].instance
                    /\ Cardinality(Successes(invlog[services[F.in[n]]])) = 1

\* C21: a factory parameter of type *Container is bound to the resolving
\* container itself: every argument in a *Container position is the container,
\* and the registry is consulted for the key *Container only when a caller of
\* Resolve asks for it, never on behalf of a parameter, registered or not
T_C21 ==
    \A t \in Threads :
        /\ \A n \in 1..Len(stack[t]) :
              LET fr == stack[t][n] IN
              /\ (fr.fn = "resolveType" /\ fr.d > 0) =>
                    \A i \in 1..Len(fr.args) :
                        Factories[descs[fr.d].Factory].in[i] = "PContainer"
                            => fr.args[i] = ContainerValue
              /\ (fr.fn = "resolveType" /\ fr.key = "PContainer") =>
                    n = 2 /\ stack[t][1].fn = "Resolve"
        /\ (Returned(t, "Resolve") /\ ~Failed(t) /\ ret[t].val # Nil) =>
              \A i \in 1..Len(ret[t].val.deps) :
                  Factories[descs[ret[t].val.by].Factory].in[i] = "PContainer"
                      => ret[t].val.deps[i] = ContainerValue

\* a factory taking *Container produced an instance holding the container
\* while a descriptor was registered under the key *Container and never invoked
W_C21 ==
    \E t \in Threads :
        /\ Returned(t, "Resolve") /\ ~Failed(t) /\ ret[t].val # Nil
        /\ ret[t].val.deps = <<ContainerValue>>
        /\ services["PContainer"] # 0
        /\ invlog[services["PContainer"]] = <<>>

\* C22: TryResolve[T] never aborts its caller: whatever Resolve gives, the
\* call comes back with (zero, false) or (instance, true), and never panics
CX_C22 == \A t \in Threads : ~(cur[t].op = "TryResolve" /\ cur[t].state = "panicked")

\* C23: MustResolve[T] panics if and only if Resolve of T returned an error,
\* and otherwise returns what Resolve returned
CX_C23 ==
    \A t \in Threads :
        Ended(t, "MustResolve") =>
            /\ cur[t].state = "panicked" <=> ret[t].err # NoErr
            /\ cur[t].state = "returned" => ret[t].val # Nil

\* C24: once RegisterValue[T](v) has succeeded, every Resolve of T returns
\* exactly v, the value handed over, be it a constructed value or an empty
\* one, as long as T's descriptor is the one RegisterValue stored
T_C24 ==
    \A t \in Threads :
        (/\ Returned(t, "Resolve")
         /\ Has(Key(t))
         /\ Pre(t).services[Key(t)] = services[Key(t)]
         /\ Factories[descs[services[Key(t)]].Factory].helper = "RegisterValue") =>
            /\ ~Failed(t)
            /\ ret[t].val = Captured(descs[services[Key(t)]].Factory)

\* an empty value came back from Resolve under the type's second registration,
\* after a constructed value had come back from Resolve under its first
W_C24 ==
    \E t \in Threads :
        /\ Returned(t, "Resolve") /\ ~Failed(t)
        /\ Has(Key(t))
        /\ Factories[descs[services[Key(t)]].Factory].captured = "nil"
        /\ ret[t].val = Nil
        /\ Len(invlog[services[Key(t)]]) = 1
        /\ \E d \in 1..Len(descs) :
              descs[d].Factory = "vI" /\ descs[d].instance = FixedValue /\ invlog[d] = <<"val">>

\* C25: round trip of the typed helpers: once RegisterType or RegisterInterface
\* has stored a descriptor for a type, a Resolve, MustResolve or TryResolve of
\* that type comes back with a product of that descriptor's factory: the cached
\* instance for a Singleton, a new instance for a Transient
CX_C25 ==
    \A t \in Threads :
        (/\ wiring \in {Typed, Interfaces}
         /\ cur[t].op \in {"Resolve", "MustResolve", "TryResolve"}
         /\ Ended(t, cur[t].op)
         /\ Pre(t).services[Key(t)] # 0
         /\ Pre(t).services[Key(t)] = services[Key(t)]) =>
            LET d == services[Key(t)] IN
            /\ cur[t].state = "returned"
            /\ ~Failed(t)
            /\ ret[t].val # Nil /\ ret[t].val.by = d
            /\ descs[d].Lifecycle = "Singleton" => ret[t].val = descs[d].instance
            /\ descs[d].Lifecycle = "Transient" => ret[t].val.id = nextInst - 1

\* C26: RegisterFunc returns; with a factory that is not a function or whose
\* result count is not 1 or 2 it returns a malformed-factory error and leaves
\* the registry as it was; when it succeeds the new descriptor is stored under
\* the factory's first result type exactly
CX_C26 ==
    \A t \in Threads :
        Ended(t, "RegisterFunc") =>
            /\ cur[t].state = "returned"
            /\ (~Given(t).func \/ Len(Given(t).out) \notin {1, 2}) =>
                  ret[t].err.kind = "malformed" /\ Untouched(t)
            /\ (cur[t].state = "returned" /\ ~Failed(t)) =>
                  /\ services[Given(t).out[1]] = Len(descs)
                  /\ descs[Len(descs)].Factory = cur[t].fac

\* goroutine t holds descriptor d's write lock on its way to the factory, or
\* runs the factory
Creating(t, d) ==
    \E n \in 1..Len(stack[t]) :
        stack[t][n].fn = "resolveType" /\ stack[t][n].d = d
            /\ stack[t][n].pc \in {"create", "arg", "exec"}
Executing(t, d) ==
    \E n \in 1..Len(stack[t]) :
        stack[t][n].fn = "resolveType" /\ stack[t][n].d = d /\ stack[t][n].pc = "exec"

\* C27: while goroutines race in Resolve for one Singleton type, at most one
\* of them is in its factory at a time, and a goroutine is creating an
\* instance only if no invocation of the factory has succeeded before: the
\* first success is cached and serves every caller that comes after it
CX_C27 ==
    \A t, u \in Threads, k \in Types :
        (t # u /\ Resolving(t, k) /\ Resolving(u, k) /\ Has(k)
              /\ services[k] \in SingletonDescs) =>
            LET d == services[k] IN
            /\ ~(Executing(t, d) /\ Executing(u, d))
            /\ Creating(t, d) => Successes(invlog[d]) = {}

\* goroutine t is inside a public Resolve (or a generic helper's Resolve)
InResolve(t) == ~Idle(t) /\ stack[t][1].fn = "Resolve"
\* goroutine t has called Register or Clear and has not got the registry's lock
WriterWaiting(t) == ~Idle(t) /\ Top(t).fn \in {"Register", "Clear"} /\ Top(t).pc = "Locked"

\* C28 as stated: while a factory executes, the goroutine resolving holds no
\* read lock of the registry
CX_C28 == \A t \in Threads : (\E d \in 1..Len(descs) : Executing(t, d)) => cmu.r[t] = 0

\* C28, amended: Resolve holds the registry's read lock from its entry to its
\* return, factory executions included, so that a Register or Clear issued
\* meanwhile cannot take the write lock before the resolution has ended
T_C28 ==
    \A t \in Threads :
        InResolve(t) =>
            /\ cmu.r[t] >= 1
            /\ cmu.held = FALSE
            /\ \A u \in Threads : WriterWaiting(u) => ~NoReaders(cmu)

\* a factory is executing while a Register or Clear of another goroutine waits
W_C28 ==
    \E t, u \in Threads, d \in 1..Len(descs) :
        /\ Executing(t, d)
        /\ WriterWaiting(u)
        /\ cmu.w = u

\* C29 as stated: the factory of a Transient descriptor is never executed by
\* two goroutines at the same time
CX_C29 ==
    \A d \in TransientDescs : \A t, u \in Threads : (Executing(t, d) /\ Executing(u, d)) => t = u

\* C29, amended: a Resolve of a Transient type takes no descriptor lock: the
\* lock of a Transient descriptor is free in every state, whoever is creating
\* an instance or executing the factory
T_C29 ==
    \A d \in TransientDescs :
        /\ dmu[Mu(d)] = FreeLock
        /\ \A t \in Threads :
              \A n \in 1..Len(stack[t]) :
                  (stack[t][n].fn = "resolveType" /\ stack[t][n].d = d)
                      => stack[t][n].pc \in {"create", "arg", "exec"}

\* two goroutines execute the factory of one Transient descriptor at once
W_C29 ==
    \E d \in TransientDescs : \E t, u \in Threads :
        t # u /\ Executing(t, d) /\ Executing(u, d)

\* C30: a goroutine that waits for a descriptor's lock waits for a goroutine
\* that is resolving that same descriptor, never for one that is resolving
\* other types only
T_C30 ==
    \A t, u \in Threads :
        (/\ t # u
         /\ ~Idle(t) /\ Top(t).fn = "resolveType" /\ Top(t).pc \in {"fast", "lock", "lockwait"}
         /\ u \in WaitsFor(t)) =>
            \E n \in 1..Len(stack[u]) :
                stack[u][n].fn = "resolveType" /\ stack[u][n].d = Top(t).d

\* the factories of two different Singleton descriptors execute at the same
\* time, each for the first time
W_C30 ==
    \E t, u \in Threads : \E d, e \in SingletonDescs :
        /\ t # u /\ d # e
        /\ descs[d].ServiceType # descs[e].ServiceType
        /\ Executing(t, d) /\ Executing(u, e)
        /\ invlog[d] = <<"run">> /\ invlog[e] = <<"run">>

\* the parameter type P of the call of t was bound: it is the container, or
\* its descriptor held an instance, or that descriptor's last invocation in
\* the call returned without error
Bound(t, P) ==
    \/ P = "PContainer"
    \/ LET e == Pre(t).services[P] IN
       /\ e # 0
       /\ \/ (e \in SingletonDescs /\ Pre(t).descs[e].instance # Nil)
          \/ (NewCalls(t, e) # <<>> /\ Last(NewCalls(t, e)) \in {"ok", "nil", "val"})

\* C31: the parameters are resolved in declared order, one at a time: a frame
\* has bound exactly the parameters before the one it is at, and the factory
\* runs with all of them; a Resolve that had to create its instance has
\* invoked the factory exactly once if every parameter was bound, and
\* otherwise has neither invoked it nor resolved a parameter after the first
\* one that failed
CX_C31 ==
    /\ \A t \in Threads : \A n \in 1..Len(stack[t]) :
          LET fr == stack[t][n] IN
          (fr.fn = "resolveType" /\ fr.d > 0) =>
              /\ fr.pc \in {"create", "arg"} => Len(fr.args) = fr.i - 1
              /\ fr.pc = "exec" => Len(fr.args) = NumIn(fr)
    /\ \A t \in Threads :
          (/\ Ended(t, "Resolve")
           /\ Pre(t).services[Key(t)] # 0
           /\ Pre(t).descs[Pre(t).services[Key(t)]].instance = Nil) =>
              LET d == Pre(t).services[Key(t)]
                  in == Factories[descs[d].Factory].in
                  failing == {n \in 1..Len(in) : ~Bound(t, in[n])}
              IN IF failing = {}
                 THEN Len(NewCalls(t, d)) = 1
                 ELSE /\ NewCalls(t, d) = <<>>
                      /\ \A m \in 1..Len(in) :
                            (\E n \in failing : m > n) =>
                                (Pre(t).services[in[m]] # 0 =>
                                    NewCalls(t, Pre(t).services[in[m]]) = <<>>)

\* the registry key a token stands for: the pointed-to type of a pointer token
KeyOf(x) == IF Kind(x) = "Ptr" THEN Elem(x) ELSE x
\* x and y are one token, or the tokens T and pointer-to-T of a type T that is
\* not a pointer
SameKey(x, y) ==
    \/ x = y
    \/ Kind(y) # "Ptr" /\ Kind(x) = "Ptr" /\ Elem(x) = y
    \/ Kind(x) # "Ptr" /\ Kind(y) = "Ptr" /\ Elem(y) = x

\* C32: Register, Resolve and Has strip one pointer level from a pointer token
\* and use any other token as it is: a successful Register(x) stores the new
\* descriptor under the key of x, where Has and Resolve look for x and for the
\* other token (T or pointer-to-T, T not a pointer) of the same type
T_C32 ==
    \A t \in Threads : \A y \in Tokens :
        SameKey(cur[t].token, y) =>
            /\ (Returned(t, "Register") /\ ~Failed(t)) =>
                  /\ services[KeyOf(y)] = Len(descs)
                  /\ HasResult(y).flag
            /\ Returned(t, "Has") => (ret[t].flag <=> services[KeyOf(y)] # 0)
            /\ Returned(t, "Resolve") =>
                  /\ ret[t].err.kind = "notreg" <=> services[KeyOf(y)] = 0
                  /\ (~Failed(t) /\ Constructed(ret[t].val)) => ret[t].val.by = services[KeyOf(y)]

\* Has of the struct value token found the descriptor registered with the
\* pointer token
W_C32 ==
    \E t \in Threads :
        /\ Returned(t, "Has") /\ cur[t].token = "B" /\ ret[t].flag
        /\ descs[services["B"]].Factory = "fPB"

\* C33: a parameter of type P is looked up under the key P itself: the
\* resolution started for a parameter has the parameter's type as its key, and
\* a Resolve that creates an instance with a factory of one parameter P fails
\* on P as not registered exactly if no descriptor is stored under P, whatever
\* is stored under the type P points to, and otherwise injects an instance of
\* the descriptor stored under P
T_C33 ==
    /\ \A t \in Threads : \A n \in 2..Len(stack[t]) :
          (stack[t][n].fn = "resolveType" /\ stack[t][n - 1].fn = "resolveType") =>
              stack[t][n].key = Factories[descs[stack[t][n - 1].d].Factory].in[stack[t][n - 1].i]
    /\ \A t \in Threads :
          (/\ Returned(t, "Resolve")
           /\ Pre(t).services[Key(t)] # 0
           /\ Pre(t).descs[Pre(t).services[Key(t)]].instance = Nil
           /\ Len(Factories[descs[Pre(t).services[Key(t)]].Factory].in) = 1
           /\ Factories[descs[Pre(t).services[Key(t)]].Factory].in[1] # "PContainer") =>
              LET P == Factories[descs[Pre(t).services[Key(t)]].Factory].in[1] IN
              /\ ret[t].err = [kind |-> "dep", type |-> P,
                               cause |-> <<[kind |-> "notreg", type |-> P, cause |-> <<>>]>>]
                    <=> Pre(t).services[P] = 0
              /\ (~Failed(t) /\ Constructed(ret[t].val) /\ Constructed(ret[t].val.deps[1])) =>
                    ret[t].val.deps[1].by = Pre(t).services[P]

\* the parameter of type *T was not registered although a descriptor whose
\* factory returns *T is stored under the key T
W_C33 ==
    \E t \in Threads :
        /\ Returned(t, "Resolve") /\ Failed(t)
        /\ ret[t].err.kind = "dep" /\ ret[t].err.type = "PB"
        /\ ret[t].err.cause[1].kind = "notreg"
        /\ services["B"] # 0 /\ descs[services["B"]].Factory = "fPB"
        /\ services["PB"] = 0

\* C34: in every state the slot of a descriptor is empty, or holds what an
\* invocation of this descriptor's own factory returned without error, the
\* last one made; the slot of a Transient descriptor is empty
T_C34 ==
    \A d \in 1..Len(descs) :
        LET v == descs[d].instance IN
        /\ d \in TransientDescs => v = Nil
        /\ v # Nil =>
              /\ invlog[d] # <<>> /\ Last(invlog[d]) \in {"ok", "val"}
              /\ \A n \in 1..(Len(invlog[d]) - 1) : invlog[d][n] \in {"err", "nil", "run"}
              /\ IF Constructed(v) THEN v.by = d ELSE v = Captured(descs[d].Factory)

\* a Singleton's slot holds an instance its factory made, next to a Transient
\* descriptor that has made an instance and holds none
W_C34 ==
    /\ \E d \in SingletonDescs : Constructed(descs[d].instance) /\ Len(invlog[d]) >= 1
    /\ \E e \in TransientDescs : \E n \in 1..Len(invlog[e]) : invlog[e][n] = "ok"

\* every descriptor a resolution in progress has looked up is still the one
\* stored under its key
LookupsCurrent ==
    \A t \in Threads : \A n \in 1..Len(stack[t]) :
        (stack[t][n].fn = "resolveType" /\ stack[t][n].d > 0) =>
            services[stack[t][n].key] = stack[t][n].d

\* C35: a resolution sees one registry: no step taken while a goroutine is
\* inside Resolve changes the registry, in the step that ends a Resolve
\* included, so every descriptor looked up so far is still the one stored
\* under its key when the dependencies are looked up
T_C35 ==
    /\ []LookupsCurrent
    /\ [][(\E t \in Threads : InResolve(t)) => services' = services]_vars

\* a goroutine inside Resolve looks up a registered dependency of the type it
\* was asked for while a Clear of another goroutine waits for the lock
W_C35 ==
    \E t, u \in Threads :
        /\ InResolve(t) /\ Len(stack[t]) >= 3
        /\ Top(t).fn = "resolveType" /\ Top(t).pc = "lookup"
        /\ services[Top(t).key] # 0
        /\ ~Idle(u) /\ Top(u).fn = "Clear" /\ Top(u).pc = "Locked" /\ cmu.w = u

\* goroutine t holds no lock of the registry or of a descriptor
HoldsNothing(t) ==
    /\ cmu.r[t] = 0 /\ cmu.w # t
    /\ \A d \in 1..Len(dmu) : dmu[d].w # t
\* goroutine t is resolving descriptor d: it has looked d up and not yet returned
Using(t, d) ==
    \E n \in 1..Len(stack[t]) : stack[t][n].fn = "resolveType" /\ stack[t][n].d = d
\* the last invocation of descriptor d's factory was left by a panic
Aborted(d) ==
    /\ invlog[d] # <<>> /\ Last(invlog[d]) \in {"run", "panic"}
    /\ \A t \in Threads : ~Executing(t, d)

\* C36: a goroutine that is in no call holds no lock, however its calls
\* ended: by a return, with an error, or by a panic that left a factory, such
\* as that of a MustResolve failing inside it; a goroutine in a call holds the
\* registry's read lock once for each Resolve it is in; with no call in
\* progress the registry's lock and every descriptor's lock are free; a
\* Singleton whose last invocation a panic has left has an empty slot and,
\* while no goroutine is resolving it, a free lock, so that a later Resolve
\* invokes the factory again
T_C36 ==
    /\ \A t \in Threads : Idle(t) => HoldsNothing(t)
    /\ \A t \in Threads : cmu.r[t] = ReadHolds(t)
    /\ (\A t \in Threads : Idle(t)) =>
          /\ cmu = FreeLock
          /\ \A d \in 1..Len(dmu) : dmu[d] = FreeLock
    /\ \A d \in SingletonDescs :
          Aborted(d) =>
              /\ descs[d].instance = Nil
              /\ (\A t \in Threads : ~Using(t, d)) => dmu[Mu(d)] = FreeLock

\* a Singleton's factory was left by the panic of the MustResolve inside it;
\* a later Resolve has invoked it again and stored its instance, and no lock
\* is held
W_C36 ==
    /\ \A t \in Threads : Idle(t)
    /\ cmu = FreeLock
    /\ \E d \in SingletonDescs :
          /\ descs[d].Factory = "fBm"
          /\ invlog[d] = <<"run", "ok">>
          /\ descs[d].instance # Nil
          /\ dmu[Mu(d)] = FreeLock

====
